---- MODULE Spec2Model ----
(***************************************************************************)
(* Model of poker/js/evaluatePokerHand.js: the classification of a         *)
(* five-card poker hand into one of ten categories.                        *)
(*                                                                         *)
(* A card is a record [rank |-> 1..13, suit |-> string].  A suit string is *)
(* modelled as the sequence of its character codes, so that toLowerCase is *)
(* a real conversion and not the identity.                                 *)
(***************************************************************************)
EXTENDS Integers, Sequences, FiniteSets

VARIABLES hand, pc, ranks, suits, rankCounts, descendingOrder, numPairs,
          hasThree, hasFour, isFlush, ranksAceHigh, uniqueAceHigh,
          wheelStraight, isStraight, straightHigh, result

vars == <<hand, pc, ranks, suits, rankCounts, descendingOrder, numPairs,
          hasThree, hasFour, isFlush, ranksAceHigh, uniqueAceHigh,
          wheelStraight, isStraight, straightHigh, result>>

-----------------------------------------------------------------------------
(* Program constants *)

HandSize == 5
MaxRank == 13
AceHigh == 14

(* "club", "spade", "diamond", "heart" as character codes *)
Club == <<99, 108, 117, 98>>
Spade == <<115, 112, 97, 100, 101>>
Diamond == <<100, 105, 97, 109, 111, 110, 100>>
Heart == <<104, 101, 97, 114, 116>>
SuitNames == <<Club, Spade, Diamond, Heart>>

Categories == {"highcard", "pair", "twopair", "threeofakind", "straight",
               "flush", "fullhouse", "fourofakind", "straightflush",
               "royalflush"}

-----------------------------------------------------------------------------
(* Library behaviour used by the function *)

(* String.prototype.toLowerCase on one character code (ASCII letters) *)
LowerCode(c) == IF c >= 65 /\ c <= 90 THEN c + 32 ELSE c

(* Seeded fault: the suit is compared as written, toLowerCase forgotten *)
ToLowerCaseForgotten(s) == s

(* String.prototype.toLowerCase *)
ToLowerCase(s) == [k \in 1..Len(s) |-> LowerCode(s[k])]

(* Insert x into an ascending sequence, after any equal elements (stable) *)
RECURSIVE InsertAsc(_, _)
InsertAsc(x, s) ==
    IF s = <<>> THEN <<x>>
    ELSE IF x < Head(s) THEN <<x>> \o s
    ELSE <<Head(s)>> \o InsertAsc(x, Tail(s))

(* Array.prototype.sort((a, b) => a - b) *)
RECURSIVE SortAsc(_)
SortAsc(s) ==
    IF s = <<>> THEN <<>>
    ELSE InsertAsc(s[Len(s)], SortAsc(SubSeq(s, 1, Len(s) - 1)))

Reverse(s) == [k \in 1..Len(s) |-> s[Len(s) + 1 - k]]

(* Array.prototype.sort((a, b) => b - a) *)
SortDesc(s) == Reverse(SortAsc(s))

(* Position of key k in a Map kept as a sequence of entries in insertion     *)
(* order, or 0                                                              *)
MapIndex(m, k) ==
    IF \E i \in 1..Len(m) : m[i].key = k
    THEN CHOOSE i \in 1..Len(m) : m[i].key = k
    ELSE 0

(* Map.prototype.get(k) || 0 *)
MapGetOrZero(m, k) == IF MapIndex(m, k) = 0 THEN 0 ELSE m[MapIndex(m, k)].value

(* Map.prototype.set(k, v): an existing key keeps its position *)
MapSet(m, k, v) ==
    IF MapIndex(m, k) = 0
    THEN Append(m, [key |-> k, value |-> v])
    ELSE [m EXCEPT ![MapIndex(m, k)].value = v]

(* [...map.values()] *)
MapValues(m) == [i \in 1..Len(m) |-> m[i].value]

(* [...new Set(array)]: first occurrences, in order *)
RECURSIVE Dedup(_)
Dedup(s) ==
    IF s = <<>> THEN <<>>
    ELSE LET init == Dedup(SubSeq(s, 1, Len(s) - 1))
             x == s[Len(s)]
         IN IF \E i \in 1..Len(init) : init[i] = x THEN init ELSE Append(init, x)

-----------------------------------------------------------------------------
(* The computations of evaluatePokerHand, as functions of its input *)

RanksOf(h) == [i \in 1..Len(h) |-> h[i].rank]

SuitsOf(h) == [i \in 1..Len(h) |-> ToLowerCase(h[i].suit)]

(* Seeded fault: every set stores 1, the previous count is not added *)
RankCountsNoIncrement(rs) ==
    [i \in 1..Len(Dedup(rs)) |-> [key |-> Dedup(rs)[i], value |-> 1]]

RECURSIVE RankCountsOf(_)
RankCountsOf(rs) ==
    IF rs = <<>> THEN <<>>
    ELSE LET m == RankCountsOf(SubSeq(rs, 1, Len(rs) - 1))
             rank == rs[Len(rs)]
         IN MapSet(m, rank, MapGetOrZero(m, rank) + 1)

DescendingOrderOf(rc) == SortDesc(MapValues(rc))

(* Seeded fault: value >= 2 instead of value === 2 *)
NumPairsAtLeastTwo(rc) ==
    Len(SelectSeq(MapValues(rc), LAMBDA value : value >= 2))

NumPairsOf(rc) == Len(SelectSeq(MapValues(rc), LAMBDA value : value = 2))

HasThreeOf(d) == Len(d) >= 1 /\ d[1] = 3

HasFourOf(d) == Len(d) >= 1 /\ d[1] = 4

(* Seeded fault: some instead of every, over the other cards *)
IsFlushSome(ss) == \E i \in 2..Len(ss) : ss[i] = ss[1]

IsFlushOf(ss) == \A i \in 1..Len(ss) : ss[i] = ss[1]

(* Seeded fault: the sort of the ace-high ranks is missing *)
RanksAceHighUnsorted(rs) ==
    [i \in 1..Len(rs) |-> IF rs[i] = 1 THEN AceHigh ELSE rs[i]]

(* Seeded fault: the Ace is left at 1 *)
RanksAceLow(rs) == SortAsc(rs)

RanksAceHighOf(rs) ==
    SortAsc([i \in 1..Len(rs) |-> IF rs[i] = 1 THEN AceHigh ELSE rs[i]])

UniqueAceHighOf(rah) == Dedup(rah)

isConsecutive(sortedRanks) ==
    IF Len(sortedRanks) # HandSize THEN FALSE
    ELSE \A i \in 2..Len(sortedRanks) : sortedRanks[i] - sortedRanks[i - 1] = 1

wheelPattern == <<1, 2, 3, 4, 5>>

(* Seeded fault: the ranks are compared to the pattern without the sort *)
WheelUnsorted(rs) ==
    \A i \in 1..Len(rs) : i <= Len(wheelPattern) /\ rs[i] = wheelPattern[i]

WheelStraightOf(rs) ==
    LET sortedCards == SortAsc(rs)
    IN \A i \in 1..Len(sortedCards) :
           i <= Len(wheelPattern) /\ sortedCards[i] = wheelPattern[i]

(* Seeded fault: the wheel path is left out *)
IsStraightNoWheel(uah, wheel) == Len(uah) = HandSize /\ isConsecutive(uah)

IsStraightOf(uah, wheel) == (Len(uah) = HandSize /\ isConsecutive(uah)) \/ wheel

StraightHighOf(wheel, rah) == IF wheel THEN 5 ELSE rah[HandSize]

(* Seeded fault: the final return is missing *)
ResolveNoDefault(flush, straight, high, rah, three, four, pairs) ==
    IF straight /\ flush
    THEN IF high = AceHigh /\ rah[1] = 10 THEN "royalflush"
         ELSE "straightflush"
    ELSE IF four THEN "fourofakind"
    ELSE IF three /\ pairs = 1 THEN "fullhouse"
    ELSE IF flush THEN "flush"
    ELSE IF straight THEN "straight"
    ELSE IF three THEN "threeofakind"
    ELSE IF pairs = 2 THEN "twopair"
    ELSE IF pairs = 1 THEN "pair"
    ELSE "undefined"

(* Seeded fault: the straight-flush test placed after the flush test *)
ResolveFlushFirst(flush, straight, high, rah, three, four, pairs) ==
    IF four THEN "fourofakind"
    ELSE IF three /\ pairs = 1 THEN "fullhouse"
    ELSE IF flush THEN "flush"
    ELSE IF straight /\ flush
    THEN IF high = AceHigh /\ rah[1] = 10 THEN "royalflush"
         ELSE "straightflush"
    ELSE IF straight THEN "straight"
    ELSE IF three THEN "threeofakind"
    ELSE IF pairs = 2 THEN "twopair"
    ELSE IF pairs = 1 THEN "pair"
    ELSE "highcard"

Resolve(flush, straight, high, rah, three, four, pairs) ==
    IF straight /\ flush
    THEN IF high = AceHigh /\ rah[1] = 10 THEN "royalflush"
         ELSE "straightflush"
    ELSE IF four THEN "fourofakind"
    ELSE IF three /\ pairs = 1 THEN "fullhouse"
    ELSE IF flush THEN "flush"
    ELSE IF straight THEN "straight"
    ELSE IF three THEN "threeofakind"
    ELSE IF pairs = 2 THEN "twopair"
    ELSE IF pairs = 1 THEN "pair"
    ELSE "highcard"

(* The whole function *)
evaluatePokerHand(h) ==
    LET rs == RanksOf(h)
        rc == RankCountsOf(rs)
        d == DescendingOrderOf(rc)
        rah == RanksAceHighOf(rs)
        wheel == WheelStraightOf(rs)
        straight == IsStraightOf(UniqueAceHighOf(rah), wheel)
    IN Resolve(IsFlushOf(SuitsOf(h)), straight, StraightHighOf(wheel, rah), rah,
               HasThreeOf(d), HasFourOf(d), NumPairsOf(rc))

-----------------------------------------------------------------------------
(* The function as a state machine: one step per analysis *)

Undefined == <<>>

(* The locals before the function has assigned them *)
Entry ==
    /\ pc = "aggregate"
    /\ ranks = Undefined
    /\ suits = Undefined
    /\ rankCounts = Undefined
    /\ descendingOrder = Undefined
    /\ numPairs = 0
    /\ hasThree = FALSE
    /\ hasFour = FALSE
    /\ isFlush = FALSE
    /\ ranksAceHigh = Undefined
    /\ uniqueAceHigh = Undefined
    /\ wheelStraight = FALSE
    /\ isStraight = FALSE
    /\ straightHigh = 0
    /\ result = ""

(* Rank frequency analysis and suit uniformity check *)
Aggregate ==
    /\ pc = "aggregate"
    /\ ranks' = RanksOf(hand)
    /\ suits' = SuitsOf(hand)
    /\ rankCounts' = RankCountsOf(ranks')
    /\ descendingOrder' = DescendingOrderOf(rankCounts')
    /\ numPairs' = NumPairsOf(rankCounts')
    /\ hasThree' = HasThreeOf(descendingOrder')
    /\ hasFour' = HasFourOf(descendingOrder')
    /\ isFlush' = IsFlushOf(suits')
    /\ pc' = "sequence"
    /\ UNCHANGED <<hand, ranksAceHigh, uniqueAceHigh, wheelStraight,
                   isStraight, straightHigh, result>>

(* Straight detection: ace-high path, wheel path, high card *)
SequenceDetect ==
    /\ pc = "sequence"
    /\ ranksAceHigh' = RanksAceHighOf(ranks)
    /\ uniqueAceHigh' = UniqueAceHighOf(ranksAceHigh')
    /\ wheelStraight' = WheelStraightOf(ranks)
    /\ isStraight' = IsStraightOf(uniqueAceHigh', wheelStraight')
    /\ straightHigh' = StraightHighOf(wheelStraight', ranksAceHigh')
    /\ pc' = "resolve"
    /\ UNCHANGED <<hand, ranks, suits, rankCounts, descendingOrder, numPairs,
                   hasThree, hasFour, isFlush, result>>

(* The decision cascade and the return *)
Return ==
    /\ pc = "resolve"
    /\ result' = Resolve(isFlush, isStraight, straightHigh, ranksAceHigh,
                         hasThree, hasFour, numPairs)
    /\ pc' = "done"
    /\ UNCHANGED <<hand, ranks, suits, rankCounts, descendingOrder, numPairs,
                   hasThree, hasFour, isFlush, ranksAceHigh, uniqueAceHigh,
                   wheelStraight, isStraight, straightHigh>>

Next == Aggregate \/ SequenceDetect \/ Return

-----------------------------------------------------------------------------
(* Input hands *)

Card(r, s) == [rank |-> r, suit |-> s]

NumSuits == Len(SuitNames)

(* The order in which the cards of a generated hand are handed to the        *)
(* function: not sorted by rank, so that the sorts have work to do.          *)
DealOrder == <<3, 5, 1, 4, 2>>

Dealt(cards) == [i \in 1..Len(cards) |-> cards[DealOrder[i]]]

(* Card number c of the deck, 0..51, ordered by rank and then by suit *)
RankOfId(c) == (c \div NumSuits) + 1
SuitOfId(c) == (c % NumSuits) + 1
DeckCard(c) == Card(RankOfId(c), SuitNames[SuitOfId(c)])
DeckIds == 0..(MaxRank * NumSuits - 1)

Max(a, b) == IF a > b THEN a ELSE b

(* A card after card number prev that takes a suit already used or the     *)
(* first unused one (top is the number of suits used so far): listing the  *)
(* cards of a hand this way gives every hand of distinct cards once up to  *)
(* a renaming of the suits.                                                *)
NextCards(prev, top) == {c \in DeckIds : c > prev /\ SuitOfId(c) <= top + 1}

(* Well-formed hands: 5 distinct cards of the deck, lower-case suit names *)
Init ==
    /\ Entry
    /\ \E c1 \in NextCards(-1, 0) :
       \E c2 \in NextCards(c1, SuitOfId(c1)) :
       \E c3 \in NextCards(c2, Max(SuitOfId(c1), SuitOfId(c2))) :
       \E c4 \in NextCards(c3, Max(Max(SuitOfId(c1), SuitOfId(c2)), SuitOfId(c3))) :
       \E c5 \in NextCards(c4, Max(Max(SuitOfId(c1), SuitOfId(c2)),
                                   Max(SuitOfId(c3), SuitOfId(c4)))) :
           hand = Dealt(<<DeckCard(c1), DeckCard(c2), DeckCard(c3),
                          DeckCard(c4), DeckCard(c5)>>)

Spec == Init /\ [][Next]_vars

(* Bounds of the other input families *)
DupSuits == 1
OrderSuits == 2
MaxForm == 2

(* Hands that a caller can pass although no deck deals them: 5 cards drawn *)
(* with repetition from the cards of the first DupSuits suits.             *)
DupIds == {c \in DeckIds : SuitOfId(c) <= DupSuits}

InitAny ==
    /\ Entry
    /\ \E c1 \in DupIds :
       \E c2 \in {c \in DupIds : c >= c1} :
       \E c3 \in {c \in DupIds : c >= c2} :
       \E c4 \in {c \in DupIds : c >= c3} :
       \E c5 \in {c \in DupIds : c >= c4} :
           hand = Dealt(<<DeckCard(c1), DeckCard(c2), DeckCard(c3),
                          DeckCard(c4), DeckCard(c5)>>)

SpecAny == InitAny /\ [][Next]_vars

(* Hands for the order of the cards: ranks of the wheel and of the royal   *)
(* straight, four cards of the first suit and a fifth of any of the first  *)
(* OrderSuits suits.                                                       *)
OrderRanks == (1..5) \cup (10..MaxRank)

InitOrder ==
    /\ Entry
    /\ \E r1 \in OrderRanks :
       \E r2 \in {r \in OrderRanks : r >= r1} :
       \E r3 \in {r \in OrderRanks : r >= r2} :
       \E r4 \in {r \in OrderRanks : r >= r3} :
       \E r5 \in {r \in OrderRanks : r >= r4} :
       \E s \in 1..OrderSuits :
           hand = <<Card(r1, SuitNames[1]), Card(r2, SuitNames[1]),
                    Card(r3, SuitNames[1]), Card(r4, SuitNames[1]),
                    Card(r5, SuitNames[s])>>

SpecOrder == InitOrder /\ [][Next]_vars

(* Hands for the letter case of the suits: the rank lists of some hands of *)
(* each kind, four cards of one suit and a fifth of that suit or of the    *)
(* next one, every suit string in any of the letter-case forms 0..MaxForm. *)
UpperCode(c) == IF c >= 97 /\ c <= 122 THEN c - 32 ELSE c

(* form 0: lower case; form 1: upper case; form f > 1: the first f - 1     *)
(* letters in upper case                                                   *)
Form(s, f) ==
    [k \in 1..Len(s) |->
        IF f = 1 \/ (f > 1 /\ k <= f - 1) THEN UpperCode(s[k]) ELSE s[k]]

CaseRanks == {<<2, 5, 9, 11, 13>>, <<10, 11, 12, 13, 1>>, <<1, 2, 3, 4, 5>>,
              <<4, 4, 9, 9, 2>>}

InitCase ==
    /\ Entry
    /\ \E rs \in CaseRanks :
       \E n1 \in 1..NumSuits :
       \E n2 \in {n1, (n1 % NumSuits) + 1} :
       \E f \in [1..HandSize -> 0..MaxForm] :
           hand = [i \in 1..HandSize |->
                      Card(rs[i], Form(SuitNames[IF i < HandSize THEN n1 ELSE n2],
                                       f[i]))]

SpecCase == InitCase /\ [][Next]_vars

-----------------------------------------------------------------------------
(* The documented definitions of the categories, stated on the hand itself *)

Positions == 1..HandSize

RankSetOf(h) == {h[i].rank : i \in Positions}

CountOf(h, r) == Cardinality({i \in Positions : h[i].rank = r})

RanksWithCount(h, n) == {r \in RankSetOf(h) : CountOf(h, r) = n}

DistinctCards(h) == \A i, j \in Positions : i # j => h[i] # h[j]

StraightSets ==
    {{1, 2, 3, 4, 5}} \cup {k..(k + 4) : k \in 2..9} \cup {{10, 11, 12, 13, 1}}

RoyalRanks == {10, 11, 12, 13, 1}

InSequence(h) == RankSetOf(h) \in StraightSets

SameSuit(h) == \A i, j \in Positions : h[i].suit = h[j].suit

DocFour(h) == RanksWithCount(h, 4) # {}

DocFullHouse(h) == RanksWithCount(h, 3) # {} /\ RanksWithCount(h, 2) # {}

DocThree(h) == RanksWithCount(h, 3) # {} /\ Cardinality(RanksWithCount(h, 1)) = 2

DocTwoPair(h) == Cardinality(RanksWithCount(h, 2)) = 2

DocPair(h) ==
    Cardinality(RanksWithCount(h, 2)) = 1 /\ Cardinality(RanksWithCount(h, 1)) = 3

DocFiveRanks(h) == Cardinality(RankSetOf(h)) = HandSize

Returned == pc = "done"

WellFormed(h) ==
    /\ DistinctCards(h)
    /\ \A i \in Positions :
           h[i].rank \in 1..MaxRank /\ \E n \in 1..NumSuits : h[i].suit = SuitNames[n]

-----------------------------------------------------------------------------
(* C1: for every well-formed hand every step of the function moves on to   *)
(* the next one, the return is the third step, and the value returned is   *)
(* one label, a member of the set of the ten categories.                   *)
PcRank(p) ==
    CASE p = "aggregate" -> 0
      [] p = "sequence" -> 1
      [] p = "resolve" -> 2
      [] p = "done" -> 3

C1_OneCategory ==
    /\ [](WellFormed(hand) =>
            /\ pc \in {"aggregate", "sequence", "resolve", "done"}
            /\ Returned => result \in Categories)
    /\ [][PcRank(pc') = PcRank(pc) + 1]_vars

C1_Witness == Returned /\ result = "highcard" /\ WellFormed(hand)

(* C2: a hand that satisfies two category predicates never gets the weaker *)
(* label: straight and one suit gives straightflush or royalflush, counts  *)
(* 3 and 2 give fullhouse, two ranks occurring twice give twopair.         *)
C2_StrongerWins ==
    Returned =>
        /\ (InSequence(hand) /\ SameSuit(hand))
               => result \in {"straightflush", "royalflush"}
        /\ DocFullHouse(hand) => result = "fullhouse"
        /\ DocTwoPair(hand) => result = "twopair"

C2_Witness ==
    /\ Returned /\ InSequence(hand) /\ SameSuit(hand)
    /\ result = "straightflush"

(* C3: the returned label is the one the documented definitions give.      *)
C3_MatchesDocumentation ==
    Returned =>
        /\ result = "fourofakind" <=> DocFour(hand)
        /\ result = "fullhouse" <=> DocFullHouse(hand)
        /\ result = "threeofakind" <=> DocThree(hand)
        /\ result = "twopair" <=> DocTwoPair(hand)
        /\ result = "pair" <=> DocPair(hand)
        /\ result = "flush" <=> (SameSuit(hand) /\ ~InSequence(hand))
        /\ result = "straight" <=> (InSequence(hand) /\ ~SameSuit(hand))
        /\ result = "highcard" <=>
               (DocFiveRanks(hand) /\ ~InSequence(hand) /\ ~SameSuit(hand))

C3_Witness == Returned /\ result = "threeofakind" /\ DocThree(hand)

(* C4: royalflush is returned exactly for one suit and the ranks 10, J, Q, *)
(* K, A; every other straight of one suit gives straightflush.             *)
C4_RoyalFlush ==
    Returned =>
        /\ result = "royalflush" <=>
               (SameSuit(hand) /\ RankSetOf(hand) = RoyalRanks)
        /\ (InSequence(hand) /\ SameSuit(hand) /\ RankSetOf(hand) # RoyalRanks)
               => result = "straightflush"

C4_Witness == Returned /\ result = "royalflush" /\ RankSetOf(hand) = RoyalRanks

(* C5: the ranks 1, 2, 3, 4, 5 in any order give straight when the suits   *)
(* are mixed and straightflush (not royalflush) when they are one suit;    *)
(* the high card of the wheel is 5.                                        *)
C5_Wheel ==
    (Returned /\ RankSetOf(hand) = 1..5) =>
        /\ straightHigh = 5
        /\ result = IF SameSuit(hand) THEN "straightflush" ELSE "straight"

C5_Witness ==
    /\ Returned /\ RankSetOf(hand) = 1..5 /\ SameSuit(hand)
    /\ hand[1].rank # 1 /\ result = "straightflush"

(* C10: for hands of distinct cards a flush or a straight has five         *)
(* distinct ranks, so the only predicates that hold together are isFlush   *)
(* with isStraight and hasThree with numPairs = 1, and testing flush and   *)
(* straight before fourofakind and fullhouse gives the same result.        *)
CascadeFlushStraightFirst ==
    IF isStraight /\ isFlush
    THEN IF straightHigh = AceHigh /\ ranksAceHigh[1] = 10 THEN "royalflush"
         ELSE "straightflush"
    ELSE IF isFlush THEN "flush"
    ELSE IF isStraight THEN "straight"
    ELSE IF hasFour THEN "fourofakind"
    ELSE IF hasThree /\ numPairs = 1 THEN "fullhouse"
    ELSE IF hasThree THEN "threeofakind"
    ELSE IF numPairs = 2 THEN "twopair"
    ELSE IF numPairs = 1 THEN "pair"
    ELSE "highcard"

C10_NoOverlap ==
    Returned =>
        /\ (isFlush \/ isStraight) =>
               /\ DocFiveRanks(hand)
               /\ ~hasFour /\ ~hasThree /\ numPairs = 0
        /\ ~(hasFour /\ (hasThree \/ numPairs # 0))
        /\ ~(hasThree /\ numPairs = 2)
        /\ result = CascadeFlushStraightFirst

C10_Witness == Returned /\ isFlush /\ ~isStraight /\ result = "flush"

-----------------------------------------------------------------------------
(* C6: the result does not depend on the order of the cards.               *)
RECURSIVE PermutationsOf(_)
PermutationsOf(S) ==
    IF S = {} THEN {<<>>}
    ELSE UNION {{<<x>> \o t : t \in PermutationsOf(S \ {x})} : x \in S}

Permutations == PermutationsOf(Positions)

Permuted(h, p) == [i \in Positions |-> h[p[i]]]

C6_OrderIndependent ==
    Returned =>
        \A p \in Permutations : evaluatePokerHand(Permuted(hand, p)) = result

C6_Witness ==
    /\ Returned /\ result = "straight"
    /\ hand[HandSize].suit # hand[1].suit /\ RankSetOf(hand) = RoyalRanks

-----------------------------------------------------------------------------
(* C7: the letter case of the suits does not matter.                       *)
SameLetters(s, t) ==
    /\ Len(s) = Len(t)
    /\ \A k \in 1..Len(s) : s[k] = t[k] \/ s[k] = t[k] + 32 \/ t[k] = s[k] + 32

SuitNameOf(s) == CHOOSE n \in 1..NumSuits : SameLetters(SuitNames[n], s)

C7_CaseInsensitive ==
    /\ Returned =>
           \A i \in Positions : \A f \in 0..MaxForm :
               evaluatePokerHand([hand EXCEPT ![i].suit =
                                     Form(SuitNames[SuitNameOf(hand[i].suit)], f)])
                   = result
    /\ pc # "aggregate" =>
           (isFlush <=> \A i \in Positions : SameLetters(hand[i].suit, hand[1].suit))

C7_Witness ==
    /\ Returned /\ result = "royalflush"
    /\ hand[1].suit = Form(Club, 0) /\ hand[2].suit = Form(Club, 1)
    /\ hand[3].suit = Form(Club, 2)

-----------------------------------------------------------------------------
(* C8: isStraight holds exactly when the ranks are one of the ten rank     *)
(* sets A-5, 2-6, ..., 9-K, 10-A; a repeated rank or a run that wraps      *)
(* around the Ace is no straight.                                          *)
Sequenced == pc \in {"resolve", "done"}

C8_TenStraights ==
    Sequenced =>
        /\ isStraight <=> RankSetOf(hand) \in StraightSets
        /\ ~DocFiveRanks(hand) => ~isStraight
        /\ RankSetOf(hand) \in {{12, 13, 1, 2, 3}, {13, 1, 2, 3, 4}, {11, 12, 13, 1, 2}}
               => ~isStraight

C8_Witness == Sequenced /\ isStraight /\ RankSetOf(hand) = 1..5

-----------------------------------------------------------------------------
(* C9 as stated: the counts sum to 5, every count is between 1 and 4, and  *)
(* at most one count is 4, for every hand the function accepts.            *)
Counted == pc # "aggregate"

CountsOf(rc) == {rc[i].value : i \in 1..Len(rc)}

RECURSIVE SumValues(_)
SumValues(rc) == IF rc = <<>> THEN 0 ELSE Head(rc).value + SumValues(Tail(rc))

C9_CountsAtMostFour ==
    Counted =>
        /\ SumValues(rankCounts) = HandSize
        /\ \A i \in 1..Len(rankCounts) : rankCounts[i].value \in 1..4
        /\ Cardinality({i \in 1..Len(rankCounts) : rankCounts[i].value = 4}) <= 1

(* C9 amended: the counts sum to 5, every count is between 1 and 5, a      *)
(* count of 5 occurs only with a repeated card, and at most one count is 4.*)
C9_CountsAtMostFive ==
    Counted =>
        /\ SumValues(rankCounts) = HandSize
        /\ \A i \in 1..Len(rankCounts) :
               /\ rankCounts[i].value \in 1..HandSize
               /\ rankCounts[i].value = CountOf(hand, rankCounts[i].key)
               /\ DistinctCards(hand) => rankCounts[i].value <= 4
        /\ Cardinality({i \in 1..Len(rankCounts) : rankCounts[i].value = 4}) <= 1

C9_Witness ==
    /\ Counted /\ Len(rankCounts) = 1 /\ rankCounts[1].value = HandSize

====
